---- MODULE Spec2Model ----
(***************************************************************************)
(* A model of dominate's tag tree (src/dominate/dom_tag.py): the nodes'    *)
(* children / parent / document / attributes, the per-context stack of     *)
(* `with` frames, attribute-name normalisation and the renderer.           *)
(*                                                                         *)
(* Strings are sequences of one-character strings, so that escaping,       *)
(* prefix tests, replacement and sorting are computed, not assumed.        *)
(* Python objects are node ids 1..MaxNodes+MaxCopies (0 is None); a child  *)
(* entry is a tagged record, either a node or an (already escaped) string. *)
(***************************************************************************)
EXTENDS Integers, Sequences, FiniteSets, TLC

\* ------------------------------------------------------------------ bounds
MaxNodes == 3      \* nodes constructed in a run
MaxDepth == 2      \* frames open in one context
MaxFrames == 2     \* frames open in all contexts together
MaxAdds == 1       \* child entries made by explicit add calls (Spec)
MaxEntries == 2    \* child entries made by explicit add calls (SpecTree)
MaxAttrs == 2      \* attributes of a node (SpecAttr, SpecItem)
MaxItems == 2      \* entries of one mapping or keyword-argument list
MaxIndex == 2      \* integer indexes run over -MaxIndex..MaxIndex
MaxKids == 3       \* child entries made by explicit add calls (SpecDoc)
MaxDocs == 1       \* documents
MaxCopies == 3     \* nodes made by deep copies, beyond the MaxNodes constructed

NodeIds == 1..(MaxNodes + MaxCopies)
None == 0

\* A logical execution context: <<thread, greenlet>>.
Contexts == {<<1, 0>>, <<1, 1>>}
NoContext == <<0, 0>>

VARIABLES
  nnodes,         \* number of nodes constructed so far (their ids are 1..nnodes)
  children,       \* self.children
  parent,         \* self.parent
  document,       \* self.document
  attributes,     \* self.attributes: an insertion-ordered dict
  is_inline,      \* self.is_inline
  is_pretty,      \* self.is_pretty
  node_ctx,       \* self._ctx: the frame that collected the node
  with_contexts,  \* dom_tag._with_contexts: context key -> stack of frames
  wrappers,       \* the nodes that a wrapper returned by __call__ is bound to
  result,         \* what the last call returned, for the calls whose result is modelled
  born,           \* history: the context and open owner a node was constructed under
  passed,         \* history: nodes explicitly added by their own context while
                  \* the frame that collected them was still open
  opened,         \* history: per context, the owners entered and not yet exited
  invoked         \* history: the copies the wrappers made, one record per invocation

vars == <<nnodes, children, parent, document, attributes, is_inline, is_pretty,
          node_ctx, with_contexts, wrappers, result, born, passed, opened, invoked>>

\* ----------------------------------------------------------------- strings
AMP == <<"&", "a", "m", "p", ";">>
LT == <<"&", "l", "t", ";">>
GT == <<"&", "g", "t", ";">>
QUOT == <<"&", "q", "u", "o", "t", ";">>

RECURSIVE Replace(_, _, _)
\* str.replace(old, new) for a one-character old
Replace(data, old, new) ==
  IF data = <<>> THEN <<>>
  ELSE (IF Head(data) = old THEN new ELSE <<Head(data)>>) \o Replace(Tail(data), old, new)

escape(data, quote) ==
  LET d1 == Replace(data, "&", AMP)
      d2 == Replace(d1, "<", LT)
      d3 == Replace(d2, ">", GT)
  IN IF quote THEN Replace(d3, "\"", QUOT) ELSE d3

Digit(n) == <<"0", "1", "2", "3", "4", "5", "6", "7", "8", "9">>[n + 1]

RECURSIVE str(_)
\* str() of a non-negative integer
str(n) == IF n < 10 THEN <<Digit(n)>> ELSE str(n \div 10) \o <<Digit(n % 10)>>

\* the printable ASCII characters in code-point order: ASCII[i] is chr(i + 31)
\* (chr(96) is spelled GRAVE)
ASCII ==
  <<" ", "!", "\"", "#", "$", "%", "&", "'", "(", ")", "*", "+", ",", "-", ".", "/",
    "0", "1", "2", "3", "4", "5", "6", "7", "8", "9", ":", ";", "<", "=", ">", "?",
    "@", "A", "B", "C", "D", "E", "F", "G", "H", "I", "J", "K", "L", "M", "N", "O",
    "P", "Q", "R", "S", "T", "U", "V", "W", "X", "Y", "Z", "[", "\\", "]", "^", "_",
    "GRAVE", "a", "b", "c", "d", "e", "f", "g", "h", "i", "j", "k", "l", "m", "n", "o",
    "p", "q", "r", "s", "t", "u", "v", "w", "x", "y", "z", "{", "|", "}", "~">>

ord(ch) == 31 + CHOOSE i \in 1..Len(ASCII) : ASCII[i] = ch

\* str.lower() on one character
lower_char(ch) == IF ord(ch) >= ord("A") /\ ord(ch) <= ord("Z") THEN ASCII[ord(ch) + 32 - 31] ELSE ch

lower(data) == [i \in 1..Len(data) |-> lower_char(data[i])]

startswith(data, prefix) ==
  Len(data) >= Len(prefix) /\ SubSeq(data, 1, Len(prefix)) = prefix

RECURSIVE ReplaceFirst(_, _, _)
\* str.replace(old, new, 1) for a one-character old
ReplaceFirst(data, old, new) ==
  IF data = <<>> THEN <<>>
  ELSE IF Head(data) = old THEN new \o Tail(data)
  ELSE <<Head(data)>> \o ReplaceFirst(Tail(data), old, new)

RECURSIVE split_first(_, _)
\* data.split(sep)[0]
split_first(data, sep) ==
  IF data = <<>> \/ Head(data) = sep THEN <<>>
  ELSE <<Head(data)>> \o split_first(Tail(data), sep)

RECURSIVE str_less(_, _)
\* a < b on Python strings: lexicographic by code point
str_less(a, b) ==
  IF b = <<>> THEN FALSE
  ELSE IF a = <<>> THEN TRUE
  ELSE IF Head(a) # Head(b) THEN ord(Head(a)) < ord(Head(b))
  ELSE str_less(Tail(a), Tail(b))

RECURSIVE join(_)
\* u''.join(pieces)
join(pieces) == IF pieces = <<>> THEN <<>> ELSE Head(pieces) \o join(Tail(pieces))

RECURSIVE repeat(_, _)
\* data * n
repeat(data, n) == IF n <= 0 THEN <<>> ELSE data \o repeat(data, n - 1)

\* --------------------------------------------------------- child entries
NodeEntry(n) == [kind |-> "node", id |-> n]
StrEntry(s) == [kind |-> "str", s |-> s]
IsNode(e) == e.kind = "node"

\* objects a caller can hand to add()
NodeObj(n) == [kind |-> "node", id |-> n]
StrObj(s) == [kind |-> "str", s |-> s]
NumObj(n) == [kind |-> "num", n |-> n]
ListObj(l) == [kind |-> "list", elems |-> l]
DictObj(items) == [kind |-> "dict", items |-> items]
OtherObj == [kind |-> "other"]

\* attribute values: a string or a bool
Str(x) == [t |-> "str", s |-> x]
Bool(b) == [t |-> "bool", b |-> b]
Pair(k, v) == [k |-> k, v |-> v]

\* keys of the index operators
IntKey(i) == [kind |-> "int", i |-> i]
StrKey(k) == [kind |-> "str", k |-> k]
OtherKey == [kind |-> "other"]

\* ------------------------------------------------------------ the heap
\* The mutable program state as one value, so that a handler's nested calls
\* (add inside __exit__, setdocument inside add) compose.
St ==
  [children |-> children, parent |-> parent, document |-> document,
   attributes |-> attributes, node_ctx |-> node_ctx,
   with_contexts |-> with_contexts, wrappers |-> wrappers, err |-> ""]

Raise(s, e) == IF s.err = "" THEN [s EXCEPT !.err = e] ELSE s

\* ------------------------------------------------------ attribute names
CLASS == <<"c", "l", "a", "s", "s">>
FOR == <<"f", "o", "r">>

\* the shorthand table of clean_attribute
Shorthand ==
  (<<"c", "l", "s">> :> CLASS)
  @@ (<<"c", "l", "a", "s", "s", "N", "a", "m", "e">> :> CLASS)
  @@ (<<"c", "l", "a", "s", "s", "_", "n", "a", "m", "e">> :> CLASS)
  @@ (<<"f", "r">> :> FOR)
  @@ (<<"h", "t", "m", "l", "_", "f", "o", "r">> :> FOR)
  @@ (<<"h", "t", "m", "l", "F", "o", "r">> :> FOR)

clean_attribute_shorthand_only(attribute) ==
  IF attribute \in DOMAIN Shorthand THEN Shorthand[attribute] ELSE attribute

\* clean_attribute, for a non-empty name
clean_attribute(attribute) ==
  LET a1 == IF attribute \in DOMAIN Shorthand THEN Shorthand[attribute] ELSE attribute
      a2 == IF a1[1] = "_" THEN Tail(a1) ELSE a1
      special_prefix == startswith(a2, <<"d", "a", "t", "a", "_">>) \/ startswith(a2, <<"a", "r", "i", "a", "_">>)
      a3 == IF a2 = <<"h", "t", "t", "p", "_", "e", "q", "u", "i", "v">> \/ special_prefix
            THEN lower(Replace(a2, "_", <<"-">>)) ELSE a2
      a4 == IF split_first(a3, "_") \in {<<"x", "l", "i", "n", "k">>, <<"x", "m", "l">>, <<"x", "m", "l", "n", "s">>}
            THEN lower(ReplaceFirst(a3, "_", <<":">>)) ELSE a3
  IN a4

\* clean_pair: True becomes the cleaned name
clean_pair(attribute, value) ==
  LET a == clean_attribute(attribute)
  IN Pair(a, IF value = Bool(TRUE) THEN Str(a) ELSE value)

\* ------------------------------------------- insertion-ordered dicts
dict_has(d, k) == \E i \in 1..Len(d) : d[i].k = k
dict_get(d, k) == d[CHOOSE i \in 1..Len(d) : d[i].k = k].v
dict_set(d, k, v) ==
  IF dict_has(d, k) THEN [i \in 1..Len(d) |-> IF d[i].k = k THEN Pair(k, v) ELSE d[i]]
  ELSE Append(d, Pair(k, v))
dict_del(d, k) == SelectSeq(d, LAMBDA e : e.k # k)
dict_keys(d) == {d[i].k : i \in 1..Len(d)}

\* ------------------------------------------ the index operators
\* node[key] = value
set_attribute(s, self, key, value) ==
  IF s.err # "" THEN s
  ELSE IF key.kind = "int"
    THEN LET n == Len(s.children[self])
             i == IF key.i < 0 THEN key.i + n ELSE key.i
         IN IF i >= 0 /\ i < n
            THEN [s EXCEPT !.children[self][i + 1] = value]
            ELSE Raise(s, "IndexError")
  ELSE IF key.kind = "str"
    THEN [s EXCEPT !.attributes[self] = dict_set(@, key.k, value)]
  ELSE Raise(s, "TypeError")

\* a slice bound as list slicing reads it
slice_index(i, n) == IF i < 0 THEN (IF i + n < 0 THEN 0 ELSE i + n) ELSE (IF i > n THEN n ELSE i)

\* del seq[start:stop]
del_slice(seq, start, stop) ==
  LET n == Len(seq)
      a == slice_index(start, n)
      b == slice_index(stop, n)
  IN IF a < b THEN SubSeq(seq, 1, a) \o SubSeq(seq, b + 1, n) ELSE seq

\* del node[key]
delete_attribute(s, self, key) ==
  IF key.kind = "int"
  THEN [s EXCEPT !.children[self] = del_slice(@, key.i, key.i + 1)]
  ELSE IF key.kind = "str" /\ dict_has(s.attributes[self], key.k)
    THEN [s EXCEPT !.attributes[self] = dict_del(@, key.k)]
  ELSE Raise(s, "KeyError")

RECURSIVE set_items(_, _, _)
\* for attr, value in d.items(): self.set_attribute(*clean_pair(attr, value))
set_items(s, self, items) ==
  IF items = <<>> THEN s
  ELSE LET p == clean_pair(Head(items).k, Head(items).v)
       IN set_items(set_attribute(s, self, StrKey(p.k), p.v), self, Tail(items))

get_thread_context_no_greenlet(c) == c[1]

\* hash((thread, greenlet)): distinct live contexts get distinct keys
get_thread_context(c) == 2 * c[1] + c[2]

\* _with_contexts.get(key): None (falsy, like the empty list) when absent
stack_get(wc, k) == IF k \in DOMAIN wc THEN wc[k] ELSE <<>>

NoCtx == [st |-> "none", key |-> 0, pos |-> 0]
DeadCtx == [st |-> "dead", key |-> 0, pos |-> 0]
LiveCtx(k, i) == [st |-> "live", key |-> k, pos |-> i]

add_to_ctx(s, c, self) ==
  LET k == get_thread_context(c)
      stack == stack_get(s.with_contexts, k)
  IN IF stack # <<>>
     THEN [s EXCEPT !.node_ctx[self] = LiveCtx(k, Len(stack)),
                    !.with_contexts[k][Len(stack)].items = Append(@, self)]
     ELSE s

enter(s, c, self) ==
  LET k == get_thread_context(c)
      frame == [tag |-> self, items |-> <<>>, used |-> {}]
  IN [s EXCEPT !.with_contexts =
        IF k \in DOMAIN @ THEN [@ EXCEPT ![k] = Append(@, frame)]
        ELSE @ @@ (k :> <<frame>>)]

RECURSIVE setdocument(_, _, _)
RECURSIVE setdocument_children(_, _, _, _)

\* for i in self.children: if not isinstance(i, dom_tag): return; i.setdocument(doc)
setdocument_children(s, kids, i, doc) ==
  IF i > Len(kids) THEN s
  ELSE IF ~IsNode(kids[i]) THEN s
  ELSE setdocument_children(setdocument(s, kids[i].id, doc), kids, i + 1, doc)

setdocument(s, self, doc) ==
  IF s.document[self] # doc
  THEN LET s1 == [s EXCEPT !.document[self] = doc]
       IN setdocument_children(s1, s1.children[self], 1, doc)
  ELSE s

\* stack = _with_contexts.get(ctx); if stack: stack[-1].used.add(obj)
mark_used(s, c, obj) ==
  LET k == get_thread_context(c)
      stack == stack_get(s.with_contexts, k)
  IN IF stack # <<>>
     THEN [s EXCEPT !.with_contexts[k][Len(stack)].used = @ \cup {obj}]
     ELSE s

add_node_detaching(s, c, self, obj) ==
  LET s1 == mark_used(s, c, obj)
      s2 == [s1 EXCEPT !.children =
               [n \in NodeIds |->
                  LET kept == SelectSeq(s1.children[n], LAMBDA e : e # NodeEntry(obj))
                  IN IF n = self THEN Append(kept, NodeEntry(obj)) ELSE kept],
                       !.parent[obj] = self]
  IN setdocument(s2, obj, s2.document[self])

\* the dom_tag branch of add
add_node(s, c, self, obj) ==
  LET s1 == mark_used(s, c, obj)
      s2 == [s1 EXCEPT !.children[self] = Append(@, NodeEntry(obj)),
                       !.parent[obj] = self]
  IN setdocument(s2, obj, s2.document[self])

RECURSIVE add(_, _, _, _)
RECURSIVE add_all(_, _, _, _)

\* one iteration of add's `for obj in args`
add(s, c, self, obj) ==
  IF s.err # "" THEN s
  ELSE IF obj.kind = "num"
    THEN [s EXCEPT !.children[self] = Append(@, StrEntry(escape(str(obj.n), TRUE)))]
  ELSE IF obj.kind = "str"
    THEN [s EXCEPT !.children[self] = Append(@, StrEntry(escape(obj.s, TRUE)))]
  ELSE IF obj.kind = "node" THEN add_node(s, c, self, obj.id)
  ELSE IF obj.kind = "dict" THEN set_items(s, self, obj.items)
  ELSE IF obj.kind = "list" THEN add_all(s, c, self, obj.elems)
  ELSE Raise(s, "ValueError")

add_all(s, c, self, args) ==
  IF args = <<>> THEN s
  ELSE add_all(add(s, c, self, Head(args)), c, self, Tail(args))

RECURSIVE exit_items(_, _, _, _, _)
\* for item in frame.items: if item in frame.used: continue; self.add(item)
exit_items(s, c, self, frame, i) ==
  IF i > Len(frame.items) THEN s
  ELSE IF frame.items[i] \in frame.used THEN exit_items(s, c, self, frame, i + 1)
  ELSE exit_items(add_node(s, c, self, frame.items[i]), c, self, frame, i + 1)

exit_keeping_entry(s, c, self) ==
  LET k == get_thread_context(c)
      stack == s.with_contexts[k]
      frame == stack[Len(stack)]
      s1 == [s EXCEPT !.with_contexts[k] = SubSeq(stack, 1, Len(stack) - 1),
                      !.node_ctx = [n \in NodeIds |->
                         IF @[n] = LiveCtx(k, Len(stack)) THEN DeadCtx ELSE @[n]]]
  IN exit_items(s1, c, self, frame, 1)

\* __exit__, called with a frame open in context c
exit(s, c, self) ==
  LET k == get_thread_context(c)
      stack == s.with_contexts[k]
      frame == stack[Len(stack)]
      s1 == [s EXCEPT !.with_contexts[k] = SubSeq(stack, 1, Len(stack) - 1),
                      !.node_ctx = [n \in NodeIds |->
                         IF @[n] = LiveCtx(k, Len(stack)) THEN DeadCtx ELSE @[n]]]
      s2 == exit_items(s1, c, self, frame, 1)
  IN IF s2.with_contexts[k] = <<>>
     THEN [s2 EXCEPT !.with_contexts = [j \in DOMAIN @ \ {k} |-> @[j]]]
     ELSE s2

\* children.remove(obj): the first entry equal to obj
RECURSIVE remove_first(_, _)
remove_first(seq, e) ==
  IF seq = <<>> THEN <<>>
  ELSE IF Head(seq) = e THEN Tail(seq)
  ELSE <<Head(seq)>> \o remove_first(Tail(seq), e)

remove(s, self, e) ==
  IF \E i \in 1..Len(s.children[self]) : s.children[self][i] = e
  THEN [s EXCEPT !.children[self] = remove_first(@, e)]
  ELSE Raise(s, "ValueError")

clear(s, self) ==
  [s EXCEPT !.parent = [n \in NodeIds |->
                          IF /\ \E i \in 1..Len(s.children[self]) :
                                   s.children[self][i] = NodeEntry(n)
                             /\ @[n] = self
                          THEN None ELSE @[n]],
            !.children[self] = <<>>]

NoDefault == [given |-> FALSE, node |-> None]
Default(n) == [given |-> TRUE, node |-> n]
Returned(name, res, err) == [name |-> name, res |-> res, err |-> err]
NoResult == Returned("", None, "")

get_current_bottom(s, c, default) ==
  LET ctx == stack_get(s.with_contexts, get_thread_context(c))
  IN IF ctx # <<>> THEN Returned("get_current", ctx[1].tag, "")
     ELSE IF ~default.given THEN Returned("get_current", None, "ValueError")
     ELSE Returned("get_current", default.node, "")

\* get_current(default); NoDefault is the _get_current_none sentinel
get_current(s, c, default) ==
  LET ctx == stack_get(s.with_contexts, get_thread_context(c))
  IN IF ctx # <<>> THEN Returned("get_current", ctx[Len(ctx)].tag, "")
     ELSE IF ~default.given THEN Returned("get_current", None, "ValueError")
     ELSE Returned("get_current", default.node, "")

\* attr(**kwargs) in context c
attr(s, c, items) ==
  LET cur == get_current(s, c, NoDefault)
  IN IF cur.err # "" THEN Raise(s, cur.err) ELSE set_items(s, cur.res, items)

\* ------------------------------------------------------------ decorator
RECURSIVE closure(_, _, _)
\* the nodes copy.deepcopy reaches from S through children and parent, in at
\* most k rounds
closure(s, S, k) ==
  LET kids == UNION {{s.children[n][i].id :
                        i \in {j \in 1..Len(s.children[n]) : IsNode(s.children[n][j])}} : n \in S}
      ups == {s.parent[n] : n \in S} \ {None}
      next == S \cup kids \cup ups
  IN IF k = 0 \/ next = S THEN S ELSE closure(s, next, k - 1)

\* the nodes deepcopy(self) copies
copied(s, self) == closure(s, {self}, MaxNodes + MaxCopies)

\* the copy of n, the copies taking the ids after base
copy_of(s, self, base, n) == base + Cardinality({m \in copied(s, self) : m <= n})

\* the node that m is the copy of
original(s, self, base, m) == CHOOSE n \in copied(s, self) : copy_of(s, self, base, n) = m

copies(s, self, base) == {copy_of(s, self, base, n) : n \in copied(s, self)}

\* copy.copy(self): a new object whose fields are the fields of self
deepcopy_shallow(s, self, base) ==
  LET tag == copy_of(s, self, base, self)
  IN [s EXCEPT !.children[tag] = s.children[self],
               !.parent[tag] = s.parent[self],
               !.document[tag] = s.document[self],
               !.attributes[tag] = s.attributes[self],
               !.node_ctx[tag] = IF s.node_ctx[self] = NoCtx THEN NoCtx ELSE DeadCtx]

\* copy.deepcopy(self): every node reached is copied, the copies refer to
\* each other; strings are immutable and a document is kept by value.  The
\* copy of a node's _ctx is a frame of its own, on no stack.
deepcopy(s, self, base) ==
  LET fresh == copies(s, self, base)
      src(m) == original(s, self, base, m)
      new(n) == copy_of(s, self, base, n)
      entry(e) == IF IsNode(e) THEN NodeEntry(new(e.id)) ELSE e
  IN [s EXCEPT
        !.children = [m \in NodeIds |->
           IF m \in fresh
           THEN [i \in 1..Len(s.children[src(m)]) |-> entry(s.children[src(m)][i])]
           ELSE @[m]],
        !.parent = [m \in NodeIds |->
           IF m \in fresh
           THEN (IF s.parent[src(m)] = None THEN None ELSE new(s.parent[src(m)]))
           ELSE @[m]],
        !.document = [m \in NodeIds |-> IF m \in fresh THEN s.document[src(m)] ELSE @[m]],
        !.attributes = [m \in NodeIds |-> IF m \in fresh THEN s.attributes[src(m)] ELSE @[m]],
        !.node_ctx = [m \in NodeIds |->
           IF m \in fresh
           THEN (IF s.node_ctx[src(m)] = NoCtx THEN NoCtx ELSE DeadCtx)
           ELSE @[m]]]

\* __call__(func): marks self used in the frame that collected it and
\* returns the wrapper f
call(s, self) ==
  LET ctx == s.node_ctx[self]
      s1 == IF ctx.st = "live"
            THEN [s EXCEPT !.with_contexts[ctx.key][ctx.pos].used = @ \cup {self}]
            ELSE s
  IN [s1 EXCEPT !.wrappers = @ \cup {self}]

\* the wrapper f up to the start of func: tag = copy.deepcopy(self);
\* tag._add_to_ctx(); with tag:
wrapper(s, c, self, base) ==
  LET tag == copy_of(s, self, base, self)
  IN enter(add_to_ctx(deepcopy(s, self, base), c, tag), c, tag)

\* --------------------------------------------------------------- render
\* type(self).__name__ of the base class, and its class attribute is_single
tagname == <<"d", "o", "m", "_", "t", "a", "g">>
is_single == FALSE

\* unicode(value) of an attribute value
unicode(v) ==
  IF v.t = "str" THEN v.s ELSE IF v.b THEN <<"T", "r", "u", "e">> ELSE <<"F", "a", "l", "s", "e">>

sorted_unsorted(items) == items

RECURSIVE sorted(_)
\* sorted(self.attributes.items()): the keys are unique, so by key
sorted(items) ==
  IF items = <<>> THEN <<>>
  ELSE LET m == CHOOSE i \in 1..Len(items) :
                  \A j \in 1..Len(items) : j = i \/ str_less(items[i].k, items[j].k)
       IN <<items[m]>> \o sorted(SubSeq(items, 1, m - 1) \o SubSeq(items, m + 1, Len(items)))

RECURSIVE render_attributes(_)
\* if value is not False: sb.append(' %s="%s"' % (attribute, escape(unicode(value), True)))
render_attributes(items) ==
  IF items = <<>> THEN <<>>
  ELSE (IF Head(items).v # Bool(FALSE)
        THEN <<(<<" ">> \o Head(items).k \o <<"=", "\"">>
                \o escape(unicode(Head(items).v), TRUE) \o <<"\"">>)>>
        ELSE <<>>)
       \o render_attributes(Tail(items))

RECURSIVE render_node(_, _, _, _, _, _)
RECURSIVE render_children(_, _, _, _, _, _, _, _)

\* _render_children from the i-th child on; returns the buffer and `inline`
render_children(self, i, inline, sb, indent_level, indent_str, pretty, xhtml) ==
  IF i > Len(children[self]) THEN [sb |-> sb, inline |-> inline]
  ELSE LET child == children[self][i]
       IN IF IsNode(child)
          THEN LET broken == pretty /\ ~is_inline[child.id]
                   sb1 == IF broken
                          THEN sb \o <<(<<"\n">>), repeat(indent_str, indent_level)>>
                          ELSE sb
                   sb2 == render_node(child.id, sb1, indent_level, indent_str, pretty, xhtml)
               IN render_children(self, i + 1, inline /\ ~broken, sb2,
                                  indent_level, indent_str, pretty, xhtml)
          ELSE render_children(self, i + 1, inline, Append(sb, child.s),
                               indent_level, indent_str, pretty, xhtml)

\* _render: sb is the list of pieces
render_node(self, sb, indent_level, indent_str, pretty0, xhtml) ==
  LET pretty == pretty0 /\ is_pretty[self]
      name == IF tagname[Len(tagname)] = "_" THEN SubSeq(tagname, 1, Len(tagname) - 1)
              ELSE tagname
      sb1 == sb \o <<(<<"<">>), name>> \o render_attributes(sorted(attributes[self]))
                \o <<(IF is_single /\ xhtml THEN <<" ", "/", ">">> ELSE <<">">>)>>
  IN IF is_single THEN sb1
     ELSE LET r == render_children(self, 1, TRUE, sb1, indent_level + 1, indent_str,
                                   pretty, xhtml)
              sb2 == IF pretty /\ ~r.inline
                     THEN r.sb \o <<(<<"\n">>), repeat(indent_str, indent_level)>>
                     ELSE r.sb
          IN sb2 \o <<(<<"<", "/">>), name, (<<">">>)>>

\* render(indent, pretty, xhtml), for a tree without a cycle
render(self, indent, pretty, xhtml) == join(render_node(self, <<>>, 0, indent, pretty, xhtml))

ChildNodes(n) ==
  {children[n][i].id : i \in {j \in 1..Len(children[n]) : IsNode(children[n][j])}}

RECURSIVE Reach(_, _)
\* the nodes reachable from the set S in 1..k steps along children
Reach(S, k) ==
  IF k = 0 THEN {}
  ELSE LET step == UNION {ChildNodes(n) : n \in S} IN step \cup Reach(step, k - 1)

Descendants(n) == Reach({n}, MaxNodes)

\* the recursion of _render does not end below n
Unbounded(n) == \E m \in {n} \cup Descendants(n) : m \in Descendants(m)

INDENT == <<" ", " ">>

\* ------------------------------------------------------------- actions
Commit(s) ==
  /\ children' = s.children
  /\ parent' = s.parent
  /\ document' = s.document
  /\ attributes' = s.attributes
  /\ node_ctx' = s.node_ctx
  /\ with_contexts' = s.with_contexts
  /\ wrappers' = s.wrappers

Created == 1..nnodes

RECURSIVE SumLen(_, _)
SumLen(f, S) ==
  IF S = {} THEN 0
  ELSE LET k == CHOOSE k \in S : TRUE IN Len(f[k]) + SumLen(f, S \ {k})

\* frames open in all contexts together
OpenFrames == SumLen(with_contexts, DOMAIN with_contexts)

\* child entries in all nodes together
Entries == SumLen(children, NodeIds)

Stack(c) == stack_get(with_contexts, get_thread_context(c))

TopOwner(c) == IF Stack(c) # <<>> THEN Stack(c)[Len(Stack(c))].tag ELSE None

\* the nodes among objs that their own context adds while their frame is open
OwnPassed(c, objs) ==
  {n \in Created : /\ NodeObj(n) \in objs
                   /\ node_ctx[n].st = "live"
                   /\ node_ctx[n].key = get_thread_context(c)}

\* The history variables record a step of context c that constructs a node
\* (new = TRUE) and hands objs to add.
Track(c, new, objs) ==
  /\ born' = IF new THEN [born EXCEPT ![nnodes + 1] = [ctx |-> c, owner |-> TopOwner(c)]]
             ELSE born
  /\ passed' = passed \cup OwnPassed(c, objs)
  /\ UNCHANGED <<opened, invoked>>

TrackEnter(c, self) ==
  /\ opened' = [opened EXCEPT ![c] = Append(@, self)]
  /\ UNCHANGED <<born, passed, invoked>>

TrackExit(c) ==
  /\ opened' = [opened EXCEPT ![c] = SubSeq(@, 1, Len(@) - 1)]
  /\ UNCHANGED <<born, passed, invoked>>

NoTrack == UNCHANGED <<born, passed, opened, invoked>>

Init ==
  /\ nnodes = 0
  /\ children = [n \in NodeIds |-> <<>>]
  /\ parent = [n \in NodeIds |-> None]
  /\ document = [n \in NodeIds |-> None]
  /\ attributes = [n \in NodeIds |-> <<>>]
  /\ is_inline = [n \in NodeIds |-> FALSE]
  /\ is_pretty = [n \in NodeIds |-> TRUE]
  /\ node_ctx = [n \in NodeIds |-> NoCtx]
  /\ with_contexts = <<>>
  /\ wrappers = {}
  /\ result = NoResult
  /\ born = [n \in NodeIds |-> [ctx |-> NoContext, owner |-> None]]
  /\ passed = {}
  /\ opened = [c \in Contexts |-> <<>>]
  /\ invoked = {}

NoKw == [attrs |-> <<>>, inline |-> FALSE, pretty |-> TRUE]

\* dom_tag(*args, **kw) in context c: __init__ takes __inline and __pretty
\* out of kw, adds the args, sets the attributes, then registers itself
Construct(c, args, kw) ==
  /\ nnodes < MaxNodes
  /\ LET self == nnodes + 1
         s1 == add_all(St, c, self, args)
         s2 == set_items(s1, self, kw.attrs)
         s3 == add_to_ctx(s2, c, self)
     IN /\ Commit(s3)
        /\ nnodes' = self
        /\ is_inline' = [is_inline EXCEPT ![self] = kw.inline]
        /\ is_pretty' = [is_pretty EXCEPT ![self] = kw.pretty]
        /\ result' = IF kw.attrs = <<>> THEN NoResult
                     ELSE Returned("init", [node |-> self, items |-> kw.attrs], "")

\* self.add(obj) in context c
Add(c, self, obj) ==
  /\ self \in Created
  /\ LET s1 == add(St, c, self, obj)
     IN /\ Commit(s1)
        /\ result' = IF obj.kind = "dict"
                     THEN Returned("add", [node |-> self, items |-> obj.items], s1.err)
                     ELSE IF s1.err = "" THEN NoResult
                     ELSE Returned("add", None, s1.err)
  /\ UNCHANGED <<nnodes, is_inline, is_pretty>>

\* `with self:` entered in context c
Enter(c, self) ==
  /\ self \in Created
  /\ Len(Stack(c)) < MaxDepth
  /\ OpenFrames < MaxFrames
  /\ Commit(enter(St, c, self))
  /\ result' = NoResult
  /\ UNCHANGED <<nnodes, is_inline, is_pretty>>

\* the `with` block of the innermost open frame of context c ends
Exit(c) ==
  /\ Stack(c) # <<>>
  /\ Commit(exit(St, c, TopOwner(c)))
  /\ result' = NoResult
  /\ UNCHANGED <<nnodes, is_inline, is_pretty>>

\* get_current() / get_current(default) in context c
GetCurrent(c, default) ==
  /\ result' = get_current(St, c, default)
  /\ UNCHANGED <<nnodes, children, parent, document, attributes, is_inline,
                 is_pretty, node_ctx, with_contexts, wrappers>>

\* self.remove(obj), for an obj that is there
Remove(self, e) ==
  /\ self \in Created
  /\ \E i \in 1..Len(children[self]) : children[self][i] = e
  /\ LET s1 == remove(St, self, e)
     IN /\ Commit(s1)
        /\ result' = IF s1.err = "" THEN NoResult ELSE Returned("remove", None, s1.err)
  /\ UNCHANGED <<nnodes, is_inline, is_pretty>>

\* self.clear()
Clear(self) ==
  /\ self \in Created
  /\ Commit(clear(St, self))
  /\ result' = NoResult
  /\ UNCHANGED <<nnodes, is_inline, is_pretty>>

\* attr(**items) in context c
Attr(c, items) ==
  /\ LET s1 == attr(St, c, items)
     IN /\ Commit(s1)
        /\ result' = Returned("attr", [node |-> TopOwner(c), items |-> items], s1.err)
  /\ UNCHANGED <<nnodes, is_inline, is_pretty>>

\* self[key] = value
SetItem(self, key, value) ==
  /\ self \in Created
  /\ LET s1 == set_attribute(St, self, key, value)
     IN /\ Commit(s1)
        /\ result' = Returned("setitem", [node |-> self, key |-> key, value |-> value],
                              s1.err)
  /\ UNCHANGED <<nnodes, is_inline, is_pretty>>

\* del self[key]
DelItem(self, key) ==
  /\ self \in Created
  /\ LET s1 == delete_attribute(St, self, key)
     IN /\ Commit(s1)
        /\ result' = Returned("delitem", [node |-> self, key |-> key], s1.err)
  /\ UNCHANGED <<nnodes, is_inline, is_pretty>>

\* self.setdocument(doc)
SetDocument(self, doc) ==
  /\ self \in Created
  /\ Commit(setdocument(St, self, doc))
  /\ result' = Returned("setdocument", [node |-> self, doc |-> doc], "")
  /\ UNCHANGED <<nnodes, is_inline, is_pretty>>

\* self.render(pretty=pretty, xhtml=xhtml); a cycle below self ends in
\* RecursionError
Render(self, pretty, xhtml) ==
  /\ self \in Created
  /\ result' = IF Unbounded(self)
               THEN Returned("render", [node |-> self, pretty |-> pretty, text |-> <<>>],
                             "RecursionError")
               ELSE Returned("render", [node |-> self, pretty |-> pretty,
                                        text |-> render(self, INDENT, pretty, xhtml)], "")
  /\ UNCHANGED <<nnodes, children, parent, document, attributes, is_inline,
                 is_pretty, node_ctx, with_contexts, wrappers>>

\* @self above a function definition: self.__call__(func)
Decorate(self) ==
  /\ self \in Created
  /\ Commit(call(St, self))
  /\ result' = NoResult
  /\ UNCHANGED <<nnodes, is_inline, is_pretty>>

\* the wrapper bound to self is called in context c and reaches the start of
\* func; the `with tag` block it opens ends with an Exit step
Invoke(c, self) ==
  /\ self \in wrappers
  /\ nnodes + Cardinality(copied(St, self)) <= MaxNodes + MaxCopies
  /\ Len(Stack(c)) < MaxDepth
  /\ OpenFrames < MaxFrames
  /\ LET fresh == copies(St, self, nnodes)
     IN /\ Commit(wrapper(St, c, self, nnodes))
        /\ nnodes' = nnodes + Cardinality(fresh)
        /\ is_inline' = [m \in NodeIds |->
             IF m \in fresh THEN is_inline[original(St, self, nnodes, m)] ELSE is_inline[m]]
        /\ is_pretty' = [m \in NodeIds |->
             IF m \in fresh THEN is_pretty[original(St, self, nnodes, m)] ELSE is_pretty[m]]
        /\ result' = Returned("call", [of |-> self,
                                       tag |-> copy_of(St, self, nnodes, self),
                                       nodes |-> fresh], "")

\* the history records the invocation and the frame it opened
TrackCall(c) ==
  /\ invoked' = invoked \cup {result'.res}
  /\ opened' = [opened EXCEPT ![c] = Append(@, result'.res.tag)]
  /\ UNCHANGED <<born, passed>>

NodeObjs == {NodeObj(n) : n \in Created}

\* ------------------------------------------------- scoped construction
\* Two contexts build nodes under `with` frames.
Next ==
  \/ \E c \in Contexts : Construct(c, <<>>, NoKw) /\ Track(c, TRUE, {})
  \/ \E c \in Contexts, o \in NodeObjs : Construct(c, <<o>>, NoKw) /\ Track(c, TRUE, {o})
  \/ \E c \in Contexts, self \in NodeIds, o \in NodeObjs :
        Entries < MaxAdds /\ Add(c, self, o) /\ Track(c, FALSE, {o})
  \/ \E c \in Contexts, self \in NodeIds : Enter(c, self) /\ TrackEnter(c, self)
  \/ \E c \in Contexts : Exit(c) /\ TrackExit(c)

Spec == Init /\ [][Next]_vars

\* --------------------------------------------------------- get_current
Defaults == {NoDefault} \cup {Default(n) : n \in Created}

NextCur ==
  \/ \E c \in Contexts : Construct(c, <<>>, NoKw) /\ NoTrack
  \/ \E c \in Contexts, self \in NodeIds : Enter(c, self) /\ TrackEnter(c, self)
  \/ \E c \in Contexts : Exit(c) /\ TrackExit(c)
  \/ \E c \in Contexts, d \in Defaults : GetCurrent(c, d) /\ NoTrack

SpecCur == Init /\ [][NextCur]_vars

\* ------------------------------------------------------- tree building
\* One context builds and edits a tree.
Main == <<1, 0>>

NextTree ==
  \/ Construct(Main, <<>>, NoKw) /\ NoTrack
  \/ \E o \in NodeObjs : Construct(Main, <<o>>, NoKw) /\ NoTrack
  \/ \E self \in NodeIds, o \in NodeObjs :
        Entries < MaxEntries /\ Add(Main, self, o) /\ NoTrack
  \/ \E self \in NodeIds, o \in NodeObjs : Remove(self, NodeEntry(o.id)) /\ NoTrack
  \/ \E self \in NodeIds : Clear(self) /\ NoTrack
  \/ \E self \in NodeIds : OpenFrames = 0 /\ Enter(Main, self) /\ TrackEnter(Main, self)
  \/ Exit(Main) /\ TrackExit(Main)

SpecTree == Init /\ [][NextTree]_vars

\* ----------------------------------------------------------- attributes
\* One node takes attribute writes of every form and is rendered.
AttrNames == {<<"c", "l", "s">>, <<"f", "r">>, <<"_", "f", "o", "r">>, <<"d", "a", "t", "a", "_", "X">>, <<"x", "m", "l", "_", "l", "a", "n", "g">>}
AttrValues == {Bool(TRUE), Bool(FALSE), Str(<<"&">>)}
AttrItems == {Pair(n, v) : n \in AttrNames, v \in AttrValues}

\* keyword arguments and mappings of at most MaxItems entries
ItemLists ==
  {<<p>> : p \in AttrItems}
  \cup (IF MaxItems < 2 THEN {}
        ELSE {<<p, q>> : p \in AttrItems, q \in {r \in AttrItems : r.v = Bool(TRUE)}})

Room(self, items) == Len(attributes[self]) + Len(items) <= MaxAttrs

NextAttr ==
  \/ \E items \in ItemLists :
        /\ nnodes = 0 /\ Len(items) <= MaxAttrs
        /\ Construct(Main, <<>>, [NoKw EXCEPT !.attrs = items]) /\ NoTrack
  \/ \E self \in NodeIds, items \in ItemLists :
        Room(self, items) /\ Add(Main, self, DictObj(items)) /\ NoTrack
  \/ \E self \in NodeIds : OpenFrames = 0 /\ Enter(Main, self) /\ TrackEnter(Main, self)
  \/ Exit(Main) /\ TrackExit(Main)
  \/ \E items \in ItemLists :
        /\ (IF OpenFrames = 0 THEN TRUE ELSE Room(TopOwner(Main), items))
        /\ Attr(Main, items) /\ NoTrack
  \/ \E self \in NodeIds, p \in AttrItems :
        Room(self, <<p>>) /\ SetItem(self, StrKey(p.k), p.v) /\ NoTrack
  \/ \E self \in NodeIds, pretty \in BOOLEAN : Render(self, pretty, FALSE) /\ NoTrack

SpecAttr == Init /\ [][NextAttr]_vars

\* ------------------------------------------------------ index operators
ItemNames == {<<"a">>, <<"b">>}
Indexes == (0 - MaxIndex)..MaxIndex

NextItem ==
  \/ nnodes < 2 /\ Construct(Main, <<>>, NoKw) /\ NoTrack
  \/ \E self \in NodeIds, o \in NodeObjs \cup {StrObj(<<"t">>)} :
        Entries < MaxEntries /\ Add(Main, self, o) /\ NoTrack
  \/ \E self \in NodeIds, k \in ItemNames :
        Len(attributes[self]) < MaxAttrs /\ SetItem(self, StrKey(k), Str(<<"v">>)) /\ NoTrack
  \/ \E self \in NodeIds, i \in Indexes : DelItem(self, IntKey(i)) /\ NoTrack
  \/ \E self \in NodeIds, k \in ItemNames : DelItem(self, StrKey(k)) /\ NoTrack

SpecItem == Init /\ [][NextItem]_vars

\* -------------------------------------------------------------- layout
NextRender ==
  \/ \E inline \in BOOLEAN : Construct(Main, <<>>, [NoKw EXCEPT !.inline = inline]) /\ NoTrack
  \/ \E self \in NodeIds, o \in NodeObjs \cup {StrObj(<<"t">>)} :
        Entries < MaxEntries /\ Add(Main, self, o) /\ NoTrack
  \/ \E self \in NodeIds, pretty \in BOOLEAN : Render(self, pretty, FALSE) /\ NoTrack

SpecRender == Init /\ [][NextRender]_vars

\* ------------------------------------------------ document propagation
Documents == 1..MaxDocs

\* Trees only: a node is added while it has no parent and does not hold the
\* node it is added to, and a document is set at a root.
NextDoc ==
  \/ Construct(Main, <<>>, NoKw) /\ NoTrack
  \/ \E self \in NodeIds :
        Entries < MaxKids /\ Add(Main, self, StrObj(<<"t">>)) /\ NoTrack
  \/ \E self \in NodeIds, o \in NodeObjs :
        /\ Entries < MaxKids
        /\ parent[o.id] = None /\ self \notin {o.id} \cup Descendants(o.id)
        /\ Add(Main, self, o) /\ NoTrack
  \/ \E self \in NodeIds, doc \in Documents :
        parent[self] = None /\ SetDocument(self, doc) /\ NoTrack

SpecDoc == Init /\ [][NextDoc]_vars

\* ------------------------------------------------------- tree editing
\* add, remove, clear and the integer index operators
NextEdit ==
  \/ Construct(Main, <<>>, NoKw) /\ NoTrack
  \/ \E self \in NodeIds, o \in NodeObjs :
        Entries < MaxEntries /\ Add(Main, self, o) /\ NoTrack
  \/ \E self \in NodeIds, o \in NodeObjs : Remove(self, NodeEntry(o.id)) /\ NoTrack
  \/ \E self \in NodeIds : Clear(self) /\ NoTrack
  \/ \E self \in NodeIds, i \in Indexes, o \in NodeObjs :
        SetItem(self, IntKey(i), NodeEntry(o.id)) /\ NoTrack
  \/ \E self \in NodeIds, i \in Indexes : DelItem(self, IntKey(i)) /\ NoTrack

SpecEdit == Init /\ [][NextEdit]_vars

\* ----------------------------------------------------------- decorator
\* Nodes are built under `with` frames, one of them is used as a decorator
\* and its wrapper is called.
WithId == [NoKw EXCEPT !.attrs = <<Pair(<<"i", "d">>, Str(<<"x">>))>>]

NextCall ==
  \/ Construct(Main, <<>>, WithId) /\ NoTrack
  \/ \E o \in NodeObjs : Construct(Main, <<o>>, NoKw) /\ NoTrack
  \/ \E self \in NodeIds : Enter(Main, self) /\ TrackEnter(Main, self)
  \/ Exit(Main) /\ TrackExit(Main)
  \/ \E self \in NodeIds : wrappers = {} /\ Decorate(self) /\ NoTrack
  \/ \E self \in NodeIds : Invoke(Main, self) /\ TrackCall(Main)

SpecCall == Init /\ [][NextCall]_vars

\* ============================================================== claims
Heap == <<nnodes, children, parent, document, attributes, is_inline, is_pretty,
          node_ctx, with_contexts, wrappers>>

\* the entries a step appends to n's children
Appended(n) == SubSeq(children'[n], Len(children[n]) + 1, Len(children'[n]))

RECURSIVE Ascending(_)
\* the node entries of a set of nodes, in construction (id) order
Ascending(S) ==
  IF S = {} THEN <<>>
  ELSE LET m == CHOOSE m \in S : \A x \in S : m <= x
       IN <<NodeEntry(m)>> \o Ascending(S \ {m})

\* the nodes the innermost open frame of context c collected
Collected(c) ==
  {n \in Created : node_ctx[n] = LiveCtx(get_thread_context(c), Len(Stack(c)))}

\* how often node n is listed in m's children, and in all children lists
ListedIn(m, n) == Cardinality({i \in 1..Len(children[m]) : children[m][i] = NodeEntry(n)})
RECURSIVE SumListed(_, _)
SumListed(S, n) ==
  IF S = {} THEN 0
  ELSE LET m == CHOOSE m \in S : TRUE IN ListedIn(m, n) + SumListed(S \ {m}, n)
Listings(n) == SumListed(NodeIds, n)

\* C1 (the claim as stated): when a `with` block ends, its owner receives
\* exactly the nodes constructed under that frame that the context did not
\* pass to add before, once each, in construction order.
C1_ScopedConstruction ==
  [][\A c \in Contexts :
       Exit(c) => Appended(TopOwner(c)) = Ascending(Collected(c) \ passed)]_vars

\* C2: contexts do not interfere. A frame only collects nodes constructed in
\* its own context while it was the innermost frame; a `with` exit attaches
\* only such nodes, to the frame's owner; and a step of one context leaves
\* the stack (frames, collected items) and the current tag of every other
\* context as they were.
CtxStep(c) ==
  \/ \E args \in {<<>>} \cup {<<o>> : o \in NodeObjs} : Construct(c, args, NoKw)
  \/ \E self \in NodeIds, o \in NodeObjs : Add(c, self, o)
  \/ \E self \in NodeIds : Enter(c, self)
  \/ Exit(c)

C2_FramesOwnItems ==
  \A c \in Contexts : \A i \in 1..Len(Stack(c)) : \A j \in 1..Len(Stack(c)[i].items) :
    LET n == Stack(c)[i].items[j]
    IN born[n] = [ctx |-> c, owner |-> Stack(c)[i].tag]

C2_ExitAttachesOwn(c) ==
  Exit(c) =>
    \A i \in 1..Len(Appended(TopOwner(c))) :
      born[Appended(TopOwner(c))[i].id] = [ctx |-> c, owner |-> TopOwner(c)]

C2_OthersUntouched(c) ==
  CtxStep(c) =>
    \A a \in Contexts \ {c} :
      /\ stack_get(with_contexts', get_thread_context(a)) = Stack(a)
      /\ get_current([with_contexts |-> with_contexts'], a, NoDefault)
           = get_current(St, a, NoDefault)

C2_ContextIsolation ==
  /\ []C2_FramesOwnItems
  /\ [][\A c \in Contexts : C2_ExitAttachesOwn(c) /\ C2_OthersUntouched(c)]_vars

\* Two contexts have the same owner open; one has ended its block and its
\* node was attached, while the other still holds a collected node.
C2_Witness ==
  \E a \in Contexts, b \in Contexts, n \in Created :
    /\ a # b
    /\ born[n].ctx = a
    /\ born[n].owner # None
    /\ node_ctx[n].st = "dead"
    /\ n \notin passed
    /\ ListedIn(born[n].owner, n) = 1
    /\ Stack(b) # <<>>
    /\ Stack(b)[1].tag = born[n].owner
    /\ Stack(b)[1].items # <<>>

\* C3: get_current returns the owner of the innermost open frame of the
\* calling context; with no frame open it returns the default when one is
\* given and raises otherwise; it changes neither the stacks nor any node.
C3_GetCurrent ==
  [][\A c \in Contexts, d \in Defaults :
       GetCurrent(c, d) =>
         /\ UNCHANGED Heap
         /\ result' = IF opened[c] # <<>>
                      THEN Returned("get_current", opened[c][Len(opened[c])], "")
                      ELSE IF d.given THEN Returned("get_current", d.node, "")
                      ELSE Returned("get_current", None, "ValueError")]_vars

\* get_current answered with the inner of two nested frames of different owners
C3_Witness ==
  /\ result.name = "get_current"
  /\ result.err = ""
  /\ \E c \in Contexts :
       /\ Len(opened[c]) = 2
       /\ opened[c][1] # opened[c][2]
       /\ result.res = opened[c][2]

\* C4 (the claim as stated): a node is listed in at most one children list,
\* and at most once there.
C4_SingleOwnership == \A n \in NodeIds : Listings(n) <= 1

\* C4 (amended): add, explicit or by a `with` exit, appends the node to the
\* target's children and points the node's parent at the target; it removes
\* the node from no children list, so a node that is added again is listed
\* again.
C4_AddOnlyAppends ==
  [][/\ \A self \in NodeIds, o \in NodeObjs :
          Add(Main, self, o) =>
            /\ children' = [children EXCEPT ![self] = Append(@, NodeEntry(o.id))]
            /\ parent' = [parent EXCEPT ![o.id] = self]
     /\ Exit(Main) =>
          /\ \A m \in NodeIds \ {TopOwner(Main)} : children'[m] = children[m]
          /\ children'[TopOwner(Main)]
               = children[TopOwner(Main)] \o Appended(TopOwner(Main))
          /\ \A i \in 1..Len(Appended(TopOwner(Main))) :
               parent'[Appended(TopOwner(Main))[i].id] = TopOwner(Main)]_vars

\* a node listed by two different nodes, its parent being one of them
C4_Witness ==
  \E n \in Created, p \in Created, q \in Created :
    /\ p # q
    /\ ListedIn(p, n) >= 1
    /\ ListedIn(q, n) >= 1
    /\ parent[n] = q

\* C5 (the claim as stated): no node is reachable from itself by following
\* children.
C5_Acyclic == \A n \in NodeIds : n \notin Descendants(n)

\* normalizeName as the specification defines it, on the names of AttrNames
NormalizeName ==
  (<<"c", "l", "s">> :> <<"c", "l", "a", "s", "s">>)
  @@ (<<"f", "r">> :> <<"f", "o", "r">>)
  @@ (<<"_", "f", "o", "r">> :> <<"f", "o", "r">>)
  @@ (<<"d", "a", "t", "a", "_", "X">> :> <<"d", "a", "t", "a", "-", "x">>)
  @@ (<<"x", "m", "l", "_", "l", "a", "n", "g">> :> <<"x", "m", "l", ":", "l", "a", "n", "g">>)

\* the step is a successful write of the given form
Wrote(names) == result'.name \in names /\ result'.err = ""

\* items[i] is the last of items to be stored under its normalized name
LastFor(items, i) ==
  \A j \in (i + 1)..Len(items) : NormalizeName[items[j].k] # NormalizeName[items[i].k]

\* a write of items to node n stored them under their normalized names,
\* boolean true as the normalized name
StoredNormalized(n, items) ==
  /\ dict_keys(attributes'[n])
       = dict_keys(attributes[n]) \cup {NormalizeName[items[i].k] : i \in 1..Len(items)}
  /\ \A i \in 1..Len(items) :
       LastFor(items, i) =>
         dict_get(attributes'[n], NormalizeName[items[i].k])
           = IF items[i].v = Bool(TRUE) THEN Str(NormalizeName[items[i].k]) ELSE items[i].v

\* a write of items to node n stored them exactly as supplied
StoredRaw(n, items) ==
  /\ dict_keys(attributes'[n])
       = dict_keys(attributes[n]) \cup {items[i].k : i \in 1..Len(items)}
  /\ \A i \in 1..Len(items) : dict_get(attributes'[n], items[i].k) = items[i].v

\* C6 as stated: every write form (constructor keywords, add(mapping), attr,
\* node[name] = value) stores each key as normalizeName of the supplied name
\* and boolean true as the normalized name.
C6_KeysNormalized ==
  [][/\ Wrote({"init", "add", "attr"}) =>
          StoredNormalized(result'.res.node, result'.res.items)
     /\ Wrote({"setitem"}) =>
          StoredNormalized(result'.res.node,
                           <<Pair(result'.res.key.k, result'.res.value)>>)]_vars

\* C6 amended: constructor keywords, add(mapping) and attr store each key as
\* normalizeName of the supplied name and boolean true as the normalized
\* name; node[name] = value stores the name and the value just as supplied.
C6_NormalizedExceptIndexWrite ==
  [][/\ Wrote({"init", "add", "attr"}) =>
          StoredNormalized(result'.res.node, result'.res.items)
     /\ Wrote({"setitem"}) =>
          StoredRaw(result'.res.node,
                    <<Pair(result'.res.key.k, result'.res.value)>>)]_vars

\* a node holds 'class' from a normalizing write next to 'cls' from an index write
C6_Witness ==
  \E n \in Created :
    /\ dict_has(attributes[n], CLASS) /\ dict_get(attributes[n], CLASS) = Str(CLASS)
    /\ dict_has(attributes[n], <<"c", "l", "s">>)
    /\ result.name = "setitem"

RECURSIVE Until(_, _, _)
\* the first position from i on that holds ch
Until(text, i, ch) ==
  IF i > Len(text) \/ text[i] = ch THEN i ELSE Until(text, i + 1, ch)

RECURSIVE ParseAttrs(_, _)
\* the name="value" pairs read off a tag's text from position i on
ParseAttrs(text, i) ==
  IF i > Len(text) \/ text[i] # " " THEN <<>>
  ELSE LET e == Until(text, i + 1, "=")
           q == Until(text, e + 2, "\"")
       IN <<Pair(SubSeq(text, i + 1, e - 1), SubSeq(text, e + 2, q - 1))>>
          \o ParseAttrs(text, q + 1)

\* the attributes the opening tag of a rendered node lists
OpeningTagAttrs(text) == ParseAttrs(text, Len(tagname) + 2)

Rendered == result.name = "render" /\ result.err = ""

\* the opening tag lists the attributes stored with a value other than False,
\* each once and in ascending order; one stored as its own name reads name="name"
C7_OpeningTag ==
  Rendered =>
    LET stored == attributes[result.res.node]
        listed == OpeningTagAttrs(result.res.text)
    IN /\ \A i, j \in 1..Len(listed) : i < j => str_less(listed[i].k, listed[j].k)
       /\ {listed[i].k : i \in 1..Len(listed)}
            = {k \in dict_keys(stored) : dict_get(stored, k) # Bool(FALSE)}
       /\ \A i \in 1..Len(listed) :
            dict_get(stored, listed[i].k) = Str(listed[i].k) => listed[i].v = listed[i].k

\* True given through constructor, add(mapping) or attr is stored as the
\* attribute's name, False is stored as False
C7_BooleanStored ==
  Wrote({"init", "add", "attr"}) =>
    \A i \in 1..Len(result'.res.items) :
      LET p == result'.res.items[i]
          a == NormalizeName[p.k]
      IN LastFor(result'.res.items, i) /\ p.v \in {Bool(TRUE), Bool(FALSE)} =>
           dict_get(attributes'[result'.res.node], a)
             = IF p.v = Bool(TRUE) THEN Str(a) ELSE Bool(FALSE)

\* C7: render lists exactly the attributes whose stored value is not False,
\* each once, in ascending order of name whatever the order of the writes; an
\* attribute given as True through constructor, add(mapping) or attr renders
\* as name="name" and one given as False is not rendered.
C7_AttributeRendering == []C7_OpeningTag /\ [][C7_BooleanStored]_vars

\* a node set 'for' = True and then 'class' was rendered: class before for,
\* for="for"
C7_Witness ==
  /\ Rendered
  /\ LET stored == attributes[result.res.node]
         listed == OpeningTagAttrs(result.res.text)
     IN /\ Len(stored) = 2 /\ stored[1] = Pair(FOR, Str(FOR)) /\ stored[2].k = CLASS
        /\ Len(listed) = 2 /\ listed[1].k = CLASS /\ listed[2] = Pair(FOR, FOR)

\* C8 as stated: in pretty mode the text rendered for a node whose is_inline
\* is true holds no newline (the text children of the model hold none), its
\* child tags at every depth being on one line whatever their own flags.
C8_InlineOnOneLine ==
  (Rendered /\ result.res.pretty /\ is_inline[result.res.node]) =>
    \A i \in 1..Len(result.res.text) : result.res.text[i] # "\n"

\* position i (from 0, or from the end when negative) addresses a child of n
Addresses(n, i) == i >= 0 - Len(children[n]) /\ i < Len(children[n])

\* seq without its entry at position i (from 0, or from the end when negative)
Without(seq, i) ==
  LET p == IF i < 0 THEN i + Len(seq) + 1 ELSE i + 1
  IN SubSeq(seq, 1, p - 1) \o SubSeq(seq, p + 1, Len(seq))

\* C9 as stated: del node[i] for an index that addresses no child fails with
\* a missing-index error, del node[k] for a key not in attributes fails with a
\* distinct missing-key error, both leaving children and attributes as they
\* were; deleting an existing index or key removes exactly that entry.
C9_DeleteMissingFails ==
  [][result'.name = "delitem" =>
       LET n == result'.res.node
           key == result'.res.key
       IN IF key.kind = "int"
          THEN IF Addresses(n, key.i)
               THEN /\ result'.err = ""
                    /\ children' = [children EXCEPT ![n] = Without(@, key.i)]
                    /\ attributes' = attributes
               ELSE /\ result'.err = "IndexError"
                    /\ children' = children /\ attributes' = attributes
          ELSE IF dict_has(attributes[n], key.k)
               THEN /\ result'.err = ""
                    /\ attributes' = [attributes EXCEPT ![n] = dict_del(@, key.k)]
                    /\ children' = children
               ELSE /\ result'.err = "KeyError"
                    /\ children' = children /\ attributes' = attributes]_vars

\* C10 as stated: when parent.add(child) completes, every node of child's
\* subtree has the document of parent, whatever mix of text and nodes the
\* children lists hold.
C10_AddPropagatesDocument ==
  [][\A self \in NodeIds, obj \in NodeIds :
       Add(Main, self, NodeObj(obj)) =>
         \A n \in ({obj} \cup Descendants(obj))' : document'[n] = document'[self]]_vars

\* the owners of the frames of a stack, bottom first
Owners(stack) == [i \in 1..Len(stack) |-> stack[i].tag]

\* the mapping holds an entry for a context exactly while the context has an
\* unmatched enter, the entry being as deep as there are unmatched enters and
\* owned by the nodes entered, in order
C12_EntryIffOpen ==
  /\ DOMAIN with_contexts \subseteq {get_thread_context(c) : c \in Contexts}
  /\ \A c \in Contexts :
       /\ get_thread_context(c) \in DOMAIN with_contexts <=> opened[c] # <<>>
       /\ Owners(Stack(c)) = opened[c]

\* an exit of context c takes the top frame off c's stack and nothing else,
\* and leaves the other contexts' stacks as deep as they were
C12_ExitPopsTop ==
  \A c \in Contexts :
    Exit(c) =>
      /\ Owners(Stack(c))' = SubSeq(Owners(Stack(c)), 1, Len(Stack(c)) - 1)
      /\ \A d \in Contexts \ {c} : Owners(Stack(d))' = Owners(Stack(d))

\* C12: exit pops exactly the top frame of the calling context's stack and
\* removes the context's entry when the stack becomes empty; the mapping has
\* an entry for a context iff the context has an open frame, and the stack is
\* as deep as the number of unmatched enters.
C12_StackCleanup == []C12_EntryIffOpen /\ [][C12_ExitPopsTop]_vars

\* one context has left a `with` block that collected a node and has no entry
\* any more, while the other still has a frame open
C12_Witness ==
  /\ \E n \in Created : node_ctx[n] = DeadCtx /\ born[n].ctx = <<1, 1>>
  /\ get_thread_context(<<1, 1>>) \notin DOMAIN with_contexts
  /\ Len(Stack(<<1, 0>>)) = 1

\* C13 as stated: whenever a node's parent reference is a node P, the node is
\* an element of P.children, after any sequence of add, remove, clear,
\* node[i] = other and del node[i].
C13_ParentListsChild ==
  \A n \in Created :
    parent[n] # None => \E i \in 1..Len(children[parent[n]]) :
                           children[parent[n]][i] = NodeEntry(n)

\* the step is a call of the wrapper of a decorated node
Invoked == result'.name = "call"

\* a call of the wrapper copies the template into nodes that did not exist,
\* refer only to each other, and leave every existing node as it was; the
\* copy has the template's attributes and children of the same kinds
C11_InvokeCopies ==
  Invoked =>
    LET r == result'.res
    IN /\ r.nodes = (nnodes + 1)..nnodes' /\ r.tag \in r.nodes /\ r.of \in Created
       /\ \A n \in Created : /\ children'[n] = children[n]
                             /\ attributes'[n] = attributes[n]
                             /\ parent'[n] = parent[n]
       /\ \A n \in r.nodes : /\ ChildNodes(n)' \subseteq r.nodes
                             /\ parent'[n] \in r.nodes \cup {None}
       /\ attributes'[r.tag] = attributes[r.of]
       /\ Len(children'[r.tag]) = Len(children[r.of])
       /\ \A i \in 1..Len(children[r.of]) :
            IF IsNode(children[r.of][i])
            THEN IsNode(children'[r.tag][i]) /\ children'[r.tag][i].id \in r.nodes
            ELSE children'[r.tag][i] = children[r.of][i]

\* the end of a wrapper's `with` block adds what the function built to the
\* copy: the template and every other node keep their children and attributes
C11_BodyBuildsIntoCopy ==
  (Exit(Main) /\ \E r \in invoked : r.tag = TopOwner(Main)) =>
    /\ \A r \in invoked : r.of # TopOwner(Main)
    /\ \A n \in Created \ {TopOwner(Main)} : children'[n] = children[n]
    /\ attributes' = attributes

\* no exit adds a node that has been used as a decorator to the frame's owner
C11_NotAutoAttached ==
  Exit(Main) =>
    \A t \in wrappers :
      \A i \in 1..Len(Appended(TopOwner(Main))) :
        Appended(TopOwner(Main))[i] # NodeEntry(t)

\* two invocations made their copies of different nodes, none of them the
\* template
C11_ResultsDisjoint ==
  \A r1, r2 \in invoked :
    /\ r1.of \notin r1.nodes
    /\ r1.tag # r2.tag => r1.nodes \cap r2.nodes = {}
    /\ r1.tag = r2.tag => r1 = r2

\* C11: every invocation of a decorated function builds into a fresh deep
\* copy of the template T: T's children and attributes are not changed by the
\* invocations, no node is shared between two results or between a result and
\* T, and T is not added to the owner of the frame it was constructed under.
C11_DecoratorCopies ==
  /\ []C11_ResultsDisjoint
  /\ [][C11_InvokeCopies /\ C11_BodyBuildsIntoCopy /\ C11_NotAutoAttached]_vars

\* a node constructed under a frame was used as a decorator, the frame has
\* ended without attaching it, and its wrapper has been called twice
C11_Witness ==
  \E t \in wrappers :
    /\ node_ctx[t] = DeadCtx /\ parent[t] = None
    /\ \A n \in Created : t \notin ChildNodes(n)
    /\ \E r1, r2 \in invoked : r1.of = t /\ r2.of = t /\ r1.tag # r2.tag

====
